---- MODULE Spec2Model ----
(***************************************************************************)
(* The persistence adapters (src/src/databases/sqlite.rs, mysql.rs) and    *)
(* the listener start-up jobs (src/src/jobs/tracker_api.rs,                *)
(* udp_tracker.rs) of the tracker, as a state machine.                     *)
(*                                                                         *)
(* Spec      : one configured adapter working on its store.                *)
(* SpecBoot  : the boot routine starting the listener jobs.                *)
(***************************************************************************)
EXTENDS Integers, FiniteSets, Bags, TLC

VARIABLES
    driver,   \* the configured adapter (db_driver), fixed at construction
    db,       \* the store behind the pool: which relations exist, their rows
    last,     \* the last step of the persistence port and what it returned
    saved,    \* history: per info-hash, the completed of its last Ok save
    creating, \* the create_database_tables calls in progress
    caller,   \* per listener job: where the boot routine is in start_job
    task,     \* per listener job: where the spawned task is
    chan,     \* the oneshot channel of the API job
    ev        \* per listener job: which start-up events have happened

vars == <<driver, db, last, saved, creating, caller, task, chan, ev>>
dbVars == <<driver, db, last, saved, creating>>
bootVars == <<caller, task, chan, ev>>

----------------------------------------------------------------------------
(* Bounds of the model. *)

MaxInfoHash == 1    \* info-hashes 1..MaxInfoHash
MaxKey == 1         \* key strings 1..MaxKey
MaxCompleted == 1   \* completed counters 0..MaxCompleted
MaxSecs == 1        \* expiry times 0..MaxSecs seconds
IntBits == 8        \* width standing for the 64 bits of i64 / u64
MaxUdpTrackers == 2 \* entries of config.udp_trackers
MaxCreating == 2    \* create_database_tables calls in progress at a time

I64_MIN == 0 - 2 ^ (IntBits - 1)
I64_MAX == 2 ^ (IntBits - 1) - 1
U64_MAX == 2 ^ IntBits - 1

(* Half the width: the 32 bits of u32 and of the INT columns of MySQL. *)
HalfBits == IntBits \div 2
I32_MIN == 0 - 2 ^ (HalfBits - 1)
I32_MAX == 2 ^ (HalfBits - 1) - 1
U32_MAX == 2 ^ HalfBits - 1

Drivers == {"Sqlite3", "MySQL"}
Tables == {"torrents", "keys", "whitelist"}

InfoHashes == 1 .. MaxInfoHash
KeyStrings == 1 .. MaxKey
(* completed: u32, the small counters and the largest one *)
Completed == (0 .. MaxCompleted) \cup {U32_MAX}

(* Option<DurationSinceUnixEpoch> *)
None == [some |-> FALSE, secs |-> 0]
Some(n) == [some |-> TRUE, secs |-> n]
(* as_secs(): u64, the small times and the largest one *)
Seconds == (0 .. MaxSecs) \cup {U64_MAX}
ValidUntil == {None} \cup {Some(n) : n \in Seconds}

(* auth::Key *)
AuthKey(k, v) == [key |-> k, valid_until |-> v]
AuthKeys == {AuthKey(k, v) : k \in KeyStrings, v \in ValidUntil}

(* Result<T, Error>, and a panic of the calling task. *)
Ok(v) == [tag |-> "Ok", val |-> v]
Err(e) == [tag |-> "Err", error |-> e]
Panic == [tag |-> "Panic", panic |-> TRUE]
Unit == "()"

IsOk(r) == r.tag = "Ok"
IsErr(r, e) == r.tag = "Err" /\ r.error = e
IsPanic(r) == r.tag = "Panic"

(* The text of an info-hash column: the hex form of an InfoHash, or a     *)
(* text that is no 40-hex-character info-hash.                            *)
to_string(h) == [hex |-> TRUE, id |-> h]
BadText == [hex |-> FALSE, id |-> 0]
Texts == {to_string(h) : h \in InfoHashes} \cup {BadText}
from_str(t) == IF t.hex THEN Ok(t.id) ELSE Err("ParseError")

(* i64::unsigned_abs: the magnitude, as a u64. *)
unsigned_abs(v) == IF v < 0 THEN 0 - v ELSE v

----------------------------------------------------------------------------
(* The engine: what the SQL statements of the adapters do to a store.     *)
(* A relation is a bag of rows; UNIQUE is enforced by the statements.     *)

(* What a valid_until column holds: a 64-bit integer, or (SQLite) a REAL. *)
Integer(n) == [real |-> FALSE, n |-> n]
Real(n) == [real |-> TRUE, n |-> n]

(* SQLite, a TEXT parameter written to a column of INTEGER affinity: the  *)
(* text of a number is kept as an integer when it fits 64 bits signed,    *)
(* and as a REAL when it does not.                                        *)
IntegerAffinity(n) ==
    IF n \in I64_MIN .. I64_MAX THEN Integer(n) ELSE Real(n)

(* MySQL, a number written to an INT column (32 bits signed): a number    *)
(* out of range is refused in strict SQL mode and clipped to the nearest  *)
(* end of the range otherwise.                                            *)
IntColumn(n, strict) ==
    IF n \in I32_MIN .. I32_MAX THEN [ok |-> TRUE, v |-> n]
    ELSE IF strict THEN [ok |-> FALSE, v |-> n]
    ELSE [ok |-> TRUE, v |-> IF n > I32_MAX THEN I32_MAX ELSE I32_MIN]

HasTable(s, t) == t \in s.tables
Matching(rel, col, v) == {r \in BagToSet(rel) : r[col] = v}
Count(rel, rows) == BagCardinality([r \in rows |-> rel[r]])
Without(rel, rows) == [r \in BagToSet(rel) \ rows |-> rel[r]]

(* CREATE TABLE IF NOT EXISTS t *)
CreateTable(s, t) ==
    IF HasTable(s, t) THEN [ok |-> FALSE, n |-> 0, s |-> s]
    ELSE [ok |-> TRUE, n |-> 0,
          s |-> [s EXCEPT !.tables = @ \cup {t}, ![t] = EmptyBag]]
CreateTableIfNotExists(s, t) ==
    IF HasTable(s, t) THEN [ok |-> TRUE, n |-> 0, s |-> s]
    ELSE [ok |-> TRUE, n |-> 0,
          s |-> [s EXCEPT !.tables = @ \cup {t}, ![t] = EmptyBag]]

(* INSERT INTO t (...) VALUES (...), with column ucol UNIQUE *)
Insert(s, t, row, ucol) ==
    IF ~HasTable(s, t) THEN [ok |-> FALSE, n |-> 0, s |-> s]
    ELSE IF Matching(s[t], ucol, row[ucol]) # {}
         THEN [ok |-> FALSE, n |-> 0, s |-> s]
         ELSE [ok |-> TRUE, n |-> 1,
               s |-> [s EXCEPT ![t] = @ (+) SetToBag({row})]]

(* DELETE FROM t WHERE col = v *)
Delete(s, t, col, v) ==
    IF ~HasTable(s, t) THEN [ok |-> FALSE, n |-> 0, s |-> s]
    ELSE LET hit == Matching(s[t], col, v)
         IN [ok |-> TRUE, n |-> Count(s[t], hit),
             s |-> [s EXCEPT ![t] = Without(@, hit)]]

(* SELECT ... FROM t *)
SelectAll(s, t) ==
    IF ~HasTable(s, t) THEN [ok |-> FALSE, rows |-> EmptyBag]
    ELSE [ok |-> TRUE, rows |-> s[t]]

(* SELECT ... FROM t WHERE col = v *)
SelectWhere(s, t, col, v) ==
    IF ~HasTable(s, t) THEN [ok |-> FALSE, rows |-> EmptyBag]
    ELSE LET hit == Matching(s[t], col, v)
         IN [ok |-> TRUE, rows |-> [r \in hit |-> s[t][r]]]

(* The torrents rows after SET completed = c on the rows of info_hash h. *)
SetCompleted(rel, text, c) ==
    LET F(r) == IF r.info_hash = text
                THEN [r EXCEPT !.completed = c] ELSE r
    IN BagOfAll(F, rel)

(* INSERT INTO torrents ... ON CONFLICT(info_hash) DO UPDATE SET           *)
(* completed = ?2 : one row changed, inserted or updated.                  *)
UpsertOnConflict(s, text, c) ==
    IF ~HasTable(s, "torrents") THEN [ok |-> FALSE, n |-> 0, s |-> s]
    ELSE IF Matching(s.torrents, "info_hash", text) = {}
         THEN [ok |-> TRUE, n |-> 1,
               s |-> [s EXCEPT !.torrents =
                        @ (+) SetToBag({[info_hash |-> text, completed |-> c]})]]
         ELSE [ok |-> TRUE, n |-> 1,
               s |-> [s EXCEPT !.torrents = SetCompleted(@, text, c)]]

(* INSERT INTO torrents ... ON DUPLICATE KEY UPDATE completed =            *)
(* VALUES(completed) : 1 row affected when inserted, 2 when an existing    *)
(* row is changed, 0 when the existing row already holds the value.        *)
UpsertOnDuplicateKey(s, text, c) ==
    IF ~HasTable(s, "torrents") THEN [ok |-> FALSE, n |-> 0, s |-> s]
    ELSE IF Matching(s.torrents, "info_hash", text) = {}
         THEN [ok |-> TRUE, n |-> 1,
               s |-> [s EXCEPT !.torrents =
                        @ (+) SetToBag({[info_hash |-> text, completed |-> c]})]]
         ELSE LET new == SetCompleted(s.torrents, text, c)
              IN [ok |-> TRUE, n |-> IF new = s.torrents THEN 0 ELSE 2,
                  s |-> [s EXCEPT !.torrents = new]]

(* A statement the engine refuses to parse. *)
SyntaxError(s) == [ok |-> FALSE, n |-> 0, s |-> s]

(* A statement the engine refuses for a value out of the column's range. *)
OutOfRange(s) == [ok |-> FALSE, n |-> 0, s |-> s]

(* What a call hands back: its result and the store it leaves. *)
Out(r, s) == [res |-> r, db |-> s]

----------------------------------------------------------------------------
(* impl From<rusqlite::Error> for Error, applied by `?` in the Sqlite     *)
(* adapter: a statement that cannot be prepared or run is InvalidQuery.   *)
FromRusqliteError(e) ==
    IF e = "QueryReturnedNoRows" THEN "QueryReturnedNoRows" ELSE "InvalidQuery"

HasBadText(rows) == \E r \in BagToSet(rows) : ~IsOk(from_str(r.info_hash))
TorrentOf(r) == <<from_str(r.info_hash).val, r.completed>>
InfoHashOf(r) == from_str(r.info_hash).val
KeyOf(r) == AuthKey(r.key, Some(unsigned_abs(r.valid_until.n)))

(* rusqlite row.get::<_, i64>(1): Err(InvalidColumnType) on a REAL. *)
HasInteger(r) == ~r.valid_until.real
IntegerRows(rows) ==
    [r \in {x \in BagToSet(rows) : HasInteger(x)} |-> rows[r]]

----------------------------------------------------------------------------
(* impl Database for Sqlite.  conn: whether self.pool.get() succeeds.     *)

Sqlite_create_database_tables(s, conn) ==
    IF ~conn THEN Out(Err("DatabaseError"), s)
    ELSE LET r1 == CreateTableIfNotExists(s, "whitelist")
             r2 == CreateTableIfNotExists(r1.s, "keys")
             r3 == CreateTableIfNotExists(r2.s, "torrents")
         IN IF ~r1.ok THEN Out(Err("InvalidQuery"), r1.s)
            ELSE IF ~r2.ok THEN Out(Err("InvalidQuery"), r2.s)
            ELSE IF ~r3.ok THEN Out(Err("InvalidQuery"), r3.s)
            ELSE Out(Ok(Unit), r3.s)

Sqlite_load_persistent_torrents(s, conn) ==
    IF ~conn THEN Out(Err("DatabaseError"), s)
    ELSE LET q == SelectAll(s, "torrents")
         IN IF ~q.ok THEN Out(Err(FromRusqliteError("SqliteFailure")), s)
            ELSE IF HasBadText(q.rows) THEN Out(Panic, s)
            ELSE Out(Ok(BagOfAll(TorrentOf, q.rows)), s)

Sqlite_load_keys(s, conn) ==
    IF ~conn THEN Out(Err("DatabaseError"), s)
    ELSE LET q == SelectAll(s, "keys")
         IN IF ~q.ok THEN Out(Err(FromRusqliteError("SqliteFailure")), s)
            ELSE Out(Ok(BagOfAll(KeyOf, IntegerRows(q.rows))), s)

Sqlite_load_whitelist(s, conn) ==
    IF ~conn THEN Out(Err("DatabaseError"), s)
    ELSE LET q == SelectAll(s, "whitelist")
         IN IF ~q.ok THEN Out(Err(FromRusqliteError("SqliteFailure")), s)
            ELSE IF HasBadText(q.rows) THEN Out(Panic, s)
            ELSE Out(Ok(BagOfAll(InfoHashOf, q.rows)), s)

Sqlite_save_persistent_torrent(s, info_hash, completed, conn) ==
    IF ~conn THEN Out(Err("DatabaseError"), s)
    ELSE LET r == UpsertOnConflict(s, to_string(info_hash), completed)
         IN IF r.ok
            THEN IF r.n > 0 THEN Out(Ok(Unit), r.s)
                 ELSE Out(Err("QueryReturnedNoRows"), r.s)
            ELSE Out(Err("InvalidQuery"), r.s)

Sqlite_get_info_hash_from_whitelist(s, info_hash, conn) ==
    IF ~conn THEN Out(Err("DatabaseError"), s)
    ELSE LET q == SelectWhere(s, "whitelist", "info_hash", info_hash)
         IN IF ~q.ok THEN Out(Err(FromRusqliteError("SqliteFailure")), s)
            ELSE IF q.rows = EmptyBag THEN Out(Err("QueryReturnedNoRows"), s)
            ELSE LET row == CHOOSE r \in BagToSet(q.rows) : TRUE
                 IN IF IsOk(from_str(row.info_hash))
                    THEN Out(Ok(from_str(row.info_hash).val), s)
                    ELSE Out(Panic, s)

Sqlite_add_info_hash_to_whitelist(s, info_hash, conn) ==
    IF ~conn THEN Out(Err("DatabaseError"), s)
    ELSE LET r == Insert(s, "whitelist", [info_hash |-> to_string(info_hash)],
                         "info_hash")
         IN IF r.ok
            THEN IF r.n > 0 THEN Out(Ok(r.n), r.s)
                 ELSE Out(Err("QueryReturnedNoRows"), r.s)
            ELSE Out(Err("InvalidQuery"), r.s)

Sqlite_remove_info_hash_from_whitelist(s, info_hash, conn) ==
    IF ~conn THEN Out(Err("DatabaseError"), s)
    ELSE LET r == Delete(s, "whitelist", "info_hash", to_string(info_hash))
         IN IF r.ok
            THEN IF r.n > 0 THEN Out(Ok(r.n), r.s)
                 ELSE Out(Err("QueryReturnedNoRows"), r.s)
            ELSE Out(Err("InvalidQuery"), r.s)

Sqlite_get_key_from_keys(s, key, conn) ==
    IF ~conn THEN Out(Err("DatabaseError"), s)
    ELSE LET q == SelectWhere(s, "keys", "key", key)
         IN IF ~q.ok THEN Out(Err(FromRusqliteError("SqliteFailure")), s)
            ELSE IF q.rows = EmptyBag THEN Out(Err("QueryReturnedNoRows"), s)
            ELSE LET row == CHOOSE r \in BagToSet(q.rows) : TRUE
                 IN IF HasInteger(row) THEN Out(Ok(KeyOf(row)), s)
                    ELSE Out(Panic, s)

Sqlite_add_key_to_keys(s, auth_key, conn) ==
    IF ~conn THEN Out(Err("DatabaseError"), s)
    ELSE IF ~auth_key.valid_until.some THEN Out(Panic, s)
    ELSE LET r == Insert(s, "keys",
                         [key |-> auth_key.key,
                          valid_until |->
                              IntegerAffinity(auth_key.valid_until.secs)],
                         "key")
         IN IF r.ok
            THEN IF r.n > 0 THEN Out(Ok(r.n), r.s)
                 ELSE Out(Err("QueryReturnedNoRows"), r.s)
            ELSE Out(Err("InvalidQuery"), r.s)

Sqlite_remove_key_from_keys(s, key, conn) ==
    IF ~conn THEN Out(Err("DatabaseError"), s)
    ELSE LET r == Delete(s, "keys", "key", key)
         IN IF r.ok
            THEN IF r.n > 0 THEN Out(Ok(r.n), r.s)
                 ELSE Out(Err("QueryReturnedNoRows"), r.s)
            ELSE Out(Err("InvalidQuery"), r.s)

----------------------------------------------------------------------------
(* impl Database for Mysql.  conn: whether self.pool.get() succeeds.      *)

Mysql_create_database_tables(s, conn) ==
    IF ~conn THEN Out(Err("DatabaseError"), s)
    ELSE LET r1 == CreateTableIfNotExists(s, "torrents")
             r2 == CreateTableIfNotExists(r1.s, "keys")
             r3 == CreateTableIfNotExists(r2.s, "whitelist")
         IN IF ~r1.ok THEN Out(Panic, r1.s)
            ELSE IF ~r2.ok THEN Out(Panic, r2.s)
            ELSE IF ~r3.ok THEN Out(Panic, r3.s)
            ELSE Out(Ok(Unit), r3.s)

Mysql_load_persistent_torrents(s, conn) ==
    IF ~conn THEN Out(Err("DatabaseError"), s)
    ELSE LET q == SelectAll(s, "torrents")
         IN IF ~q.ok THEN Out(Err("QueryReturnedNoRows"), s)
            ELSE IF HasBadText(q.rows) THEN Out(Panic, s)
            ELSE Out(Ok(BagOfAll(TorrentOf, q.rows)), s)

Mysql_load_keys_pool_error_as_query_error(s, conn) ==
    LET q == SelectAll(s, "keys")
    IN IF ~conn \/ ~q.ok THEN Out(Err("QueryReturnedNoRows"), s)
       ELSE Out(Ok(BagOfAll(KeyOf, q.rows)), s)
Mysql_load_keys(s, conn) ==
    IF ~conn THEN Out(Err("DatabaseError"), s)
    ELSE LET q == SelectAll(s, "keys")
         IN IF ~q.ok THEN Out(Err("QueryReturnedNoRows"), s)
            ELSE Out(Ok(BagOfAll(KeyOf, q.rows)), s)

Mysql_load_whitelist(s, conn) ==
    IF ~conn THEN Out(Err("DatabaseError"), s)
    ELSE LET q == SelectAll(s, "whitelist")
         IN IF ~q.ok THEN Out(Err("QueryReturnedNoRows"), s)
            ELSE IF HasBadText(q.rows) THEN Out(Panic, s)
            ELSE Out(Ok(BagOfAll(InfoHashOf, q.rows)), s)

Mysql_save_persistent_torrent(s, info_hash, completed, conn, strict) ==
    IF ~conn THEN Out(Err("DatabaseError"), s)
    ELSE LET c == IntColumn(completed, strict)
             r == IF c.ok
                  THEN UpsertOnDuplicateKey(s, to_string(info_hash), c.v)
                  ELSE OutOfRange(s)
         IN IF r.ok THEN Out(Ok(Unit), r.s)
            ELSE Out(Err("InvalidQuery"), r.s)

Mysql_get_info_hash_from_whitelist(s, info_hash, conn) ==
    IF ~conn THEN Out(Err("DatabaseError"), s)
    ELSE LET q == SelectWhere(s, "whitelist", "info_hash", info_hash)
         IN IF ~q.ok THEN Out(Err("DatabaseError"), s)
            ELSE IF q.rows = EmptyBag THEN Out(Err("QueryReturnedNoRows"), s)
            ELSE LET row == CHOOSE r \in BagToSet(q.rows) : TRUE
                 IN IF IsOk(from_str(row.info_hash))
                    THEN Out(Ok(from_str(row.info_hash).val), s)
                    ELSE Out(Panic, s)

Mysql_add_info_hash_to_whitelist(s, info_hash, conn) ==
    IF ~conn THEN Out(Err("DatabaseError"), s)
    ELSE LET r == Insert(s, "whitelist", [info_hash |-> to_string(info_hash)],
                         "info_hash")
         IN IF r.ok THEN Out(Ok(1), r.s)
            ELSE Out(Err("InvalidQuery"), r.s)

Mysql_remove_info_hash_from_whitelist(s, info_hash, conn) ==
    IF ~conn THEN Out(Err("DatabaseError"), s)
    ELSE LET r == Delete(s, "whitelist", "info_hash", to_string(info_hash))
         IN IF r.ok THEN Out(Ok(1), r.s)
            ELSE Out(Err("InvalidQuery"), r.s)

Mysql_get_key_from_keys(s, key, conn) ==
    IF ~conn THEN Out(Err("DatabaseError"), s)
    ELSE LET q == SelectWhere(s, "keys", "key", key)
         IN IF ~q.ok THEN Out(Err("QueryReturnedNoRows"), s)
            ELSE IF q.rows = EmptyBag THEN Out(Err("InvalidQuery"), s)
            ELSE LET row == CHOOSE r \in BagToSet(q.rows) : TRUE
                 IN Out(Ok(KeyOf(row)), s)

Mysql_add_key_to_keys(s, auth_key, conn, strict) ==
    IF ~conn THEN Out(Err("DatabaseError"), s)
    ELSE LET valid_until == IF auth_key.valid_until.some
                            THEN auth_key.valid_until.secs ELSE 0
             c == IntColumn(valid_until, strict)
             r == IF c.ok
                  THEN Insert(s, "keys",
                              [key |-> auth_key.key,
                               valid_until |-> Integer(c.v)], "key")
                  ELSE OutOfRange(s)
         IN IF r.ok THEN Out(Ok(1), r.s)
            ELSE Out(Err("InvalidQuery"), r.s)

(* The statement names the column as bare key, a reserved word of the     *)
(* engine, while every other statement back-quotes it: parses tells        *)
(* whether the engine accepts the statement.                               *)
Mysql_remove_key_from_keys(s, key, conn, parses) ==
    IF ~conn THEN Out(Err("DatabaseError"), s)
    ELSE LET r == IF parses THEN Delete(s, "keys", "key", key)
                  ELSE SyntaxError(s)
         IN IF r.ok THEN Out(Ok(1), r.s)
            ELSE Out(Err("InvalidQuery"), r.s)

----------------------------------------------------------------------------
(* The Database trait object: the call goes to the configured adapter.    *)

Db_create_database_tables(d, s, conn) ==
    IF d = "Sqlite3" THEN Sqlite_create_database_tables(s, conn)
    ELSE Mysql_create_database_tables(s, conn)
Db_load_persistent_torrents(d, s, conn) ==
    IF d = "Sqlite3" THEN Sqlite_load_persistent_torrents(s, conn)
    ELSE Mysql_load_persistent_torrents(s, conn)
Db_load_keys(d, s, conn) ==
    IF d = "Sqlite3" THEN Sqlite_load_keys(s, conn)
    ELSE Mysql_load_keys(s, conn)
Db_load_whitelist(d, s, conn) ==
    IF d = "Sqlite3" THEN Sqlite_load_whitelist(s, conn)
    ELSE Mysql_load_whitelist(s, conn)
Db_save_persistent_torrent(d, s, info_hash, completed, conn, strict) ==
    IF d = "Sqlite3" THEN Sqlite_save_persistent_torrent(s, info_hash, completed, conn)
    ELSE Mysql_save_persistent_torrent(s, info_hash, completed, conn, strict)
Db_get_info_hash_from_whitelist(d, s, info_hash, conn) ==
    IF d = "Sqlite3" THEN Sqlite_get_info_hash_from_whitelist(s, info_hash, conn)
    ELSE Mysql_get_info_hash_from_whitelist(s, info_hash, conn)
Db_add_info_hash_to_whitelist(d, s, info_hash, conn) ==
    IF d = "Sqlite3" THEN Sqlite_add_info_hash_to_whitelist(s, info_hash, conn)
    ELSE Mysql_add_info_hash_to_whitelist(s, info_hash, conn)
Db_remove_info_hash_from_whitelist(d, s, info_hash, conn) ==
    IF d = "Sqlite3" THEN Sqlite_remove_info_hash_from_whitelist(s, info_hash, conn)
    ELSE Mysql_remove_info_hash_from_whitelist(s, info_hash, conn)
Db_get_key_from_keys(d, s, key, conn) ==
    IF d = "Sqlite3" THEN Sqlite_get_key_from_keys(s, key, conn)
    ELSE Mysql_get_key_from_keys(s, key, conn)
Db_add_key_to_keys(d, s, auth_key, conn, strict) ==
    IF d = "Sqlite3" THEN Sqlite_add_key_to_keys(s, auth_key, conn)
    ELSE Mysql_add_key_to_keys(s, auth_key, conn, strict)
Db_remove_key_from_keys(d, s, key, conn, parses) ==
    IF d = "Sqlite3" THEN Sqlite_remove_key_from_keys(s, key, conn)
    ELSE Mysql_remove_key_from_keys(s, key, conn, parses)

----------------------------------------------------------------------------
(* The stores an adapter may be constructed on: a new file or database    *)
(* (no relation yet), one where only some relations were created, and one *)
(* that earlier runs or other tools have written rows to.                 *)

NotSaved == 0 - 1
Store(tables, torrents, keys, whitelist) ==
    [tables |-> tables, torrents |-> torrents, keys |-> keys,
     whitelist |-> whitelist]
LegacyValidUntil == {I64_MIN, 0 - 1}
LegacyStores ==
    {Store(Tables, EmptyBag, SetToBag({[key |-> 1, valid_until |-> Integer(v)]}),
           EmptyBag) : v \in LegacyValidUntil}
    \cup {Store(Tables,
                SetToBag({[info_hash |-> BadText, completed |-> 0]}),
                EmptyBag,
                SetToBag({[info_hash |-> BadText]}))}
InitialStores ==
    {Store(ts, EmptyBag, EmptyBag, EmptyBag) : ts \in SUBSET Tables}
    \cup LegacyStores

(* What the model remembers of a call: the operation, whether it got a    *)
(* connection, whether it changed the store, and its argument and result  *)
(* (io, after the operation and the connection they belong to).  A call   *)
(* that gets no connection returns before it reads its arguments, and     *)
(* is remembered without them.                                            *)
NoArg == [none |-> TRUE]
Returned(op, arg, conn, res, changed) ==
    [op |-> op, conn |-> conn, changed |-> changed,
     io |-> <<op, conn, IF conn THEN arg ELSE NoArg, res>>]
Call(op, arg, conn, out, before) ==
    Returned(op, arg, conn, out.res, out.db # before)
LastArg == last.io[3]
LastRes == last.io[4]

(* The listener jobs the boot routine starts: the management API and one  *)
(* UDP tracker per entry of config.udp_trackers.                          *)
ApiJob == [kind |-> "api", n |-> 0]
UdpJob(i) == [kind |-> "udp", n |-> i]
UdpJobs == {UdpJob(i) : i \in 1 .. MaxUdpTrackers}
Jobs == {ApiJob} \cup UdpJobs

BootInit ==
    /\ caller = [j \in Jobs |-> "idle"]
    /\ task = [j \in Jobs |-> "none"]
    /\ chan = "none"
    /\ ev = [j \in Jobs |-> {}]

(* The create_database_tables calls in progress, a bag: of each, the      *)
(* number of its statements that have run, and whether one of them made   *)
(* a relation.  NotCreating: no call in progress.                         *)
Creating(done, changed) == [done |-> done, changed |-> changed]
NotCreating == EmptyBag

DbInit ==
    /\ driver \in Drivers
    /\ db \in InitialStores
    /\ last = Returned("new", NoArg, TRUE, Ok(Unit), FALSE)
    /\ saved = [h \in InfoHashes |-> NotSaved]
    /\ creating = NotCreating

Init == DbInit /\ BootInit

----------------------------------------------------------------------------
(* One action per operation of the persistence port. *)

Step(op, arg, conn, out) ==
    /\ db' = out.db
    /\ last' = Call(op, arg, conn, out, db)
    /\ UNCHANGED <<driver, creating, bootVars>>

(* The relation the i-th statement of create_database_tables creates. *)
Sqlite_create_statements == <<"whitelist", "keys", "torrents">>
Mysql_create_statements == <<"torrents", "keys", "whitelist">>
Db_create_statements(d) ==
    IF d = "Sqlite3" THEN Sqlite_create_statements ELSE Mysql_create_statements

(* What create_database_tables does when a statement fails. *)
Db_create_failed(d) == IF d = "Sqlite3" THEN Err("InvalidQuery") ELSE Panic

(* One statement of a create_database_tables call that has run done of    *)
(* its statements, others being the other calls in progress.  The call    *)
(* takes no lock and opens no transaction: each statement takes effect    *)
(* by itself, and other calls, further create_database_tables calls       *)
(* included, work on the store between two of them.  The call returns     *)
(* after the third statement, or at the first that fails; until then the  *)
(* statement that ran is what the model remembers as last, since the      *)
(* store is no longer the one an earlier call returned from.              *)
CreateStatement(done, changed, others) ==
    LET r == CreateTableIfNotExists(db, Db_create_statements(driver)[done + 1])
        ch == changed \/ r.s # db
        returns == ~r.ok \/ done + 1 = 3
    IN /\ db' = r.s
       /\ creating' = IF returns THEN others
                      ELSE others (+) SetToBag({Creating(done + 1, ch)})
       /\ last' = IF returns
                  THEN Returned("create_database_tables", NoArg, TRUE,
                                IF r.ok THEN Ok(Unit)
                                ELSE Db_create_failed(driver), ch)
                  ELSE Returned("create_table", NoArg, TRUE, Ok(Unit),
                                r.s # db)
       /\ UNCHANGED <<driver, saved, bootVars>>

(* create_database_tables: pool.get(), then the first statement.  The    *)
(* model follows at most MaxCreating calls in progress at a time.          *)
create_database_tables ==
    \E conn \in BOOLEAN :
        \/ /\ conn
           /\ BagCardinality(creating) < MaxCreating
           /\ CreateStatement(0, FALSE, creating)
        \/ /\ ~conn
           /\ Step("create_database_tables", NoArg, conn,
                   Db_create_database_tables(driver, db, conn))
           /\ UNCHANGED saved

(* create_database_tables: the second and the third statement of a call  *)
(* in progress                                                             *)
create_database_tables_next ==
    \E c \in BagToSet(creating) :
        CreateStatement(c.done, c.changed, creating (-) SetToBag({c}))

load_persistent_torrents ==
    \E conn \in BOOLEAN :
        /\ Step("load_persistent_torrents", NoArg, conn,
                Db_load_persistent_torrents(driver, db, conn))
        /\ UNCHANGED saved

load_keys ==
    \E conn \in BOOLEAN :
        /\ Step("load_keys", NoArg, conn, Db_load_keys(driver, db, conn))
        /\ UNCHANGED saved

load_whitelist ==
    \E conn \in BOOLEAN :
        /\ Step("load_whitelist", NoArg, conn, Db_load_whitelist(driver, db, conn))
        /\ UNCHANGED saved

(* strict: the SQL mode of the MySQL session the pool hands to the call *)
save_persistent_torrent ==
    \E info_hash \in InfoHashes, completed \in Completed, conn \in BOOLEAN,
       strict \in IF driver = "MySQL" THEN BOOLEAN ELSE {TRUE} :
        LET out == Db_save_persistent_torrent(driver, db, info_hash,
                                              completed, conn, strict)
        IN /\ Step("save_persistent_torrent",
                   [info_hash |-> info_hash, completed |-> completed], conn, out)
           /\ saved' = IF IsOk(out.res)
                       THEN [saved EXCEPT ![info_hash] = completed] ELSE saved

get_info_hash_from_whitelist ==
    \E info_hash \in Texts, conn \in BOOLEAN :
        /\ Step("get_info_hash_from_whitelist", info_hash, conn,
                Db_get_info_hash_from_whitelist(driver, db, info_hash, conn))
        /\ UNCHANGED saved

add_info_hash_to_whitelist ==
    \E info_hash \in InfoHashes, conn \in BOOLEAN :
        /\ Step("add_info_hash_to_whitelist", info_hash, conn,
                Db_add_info_hash_to_whitelist(driver, db, info_hash, conn))
        /\ UNCHANGED saved

remove_info_hash_from_whitelist ==
    \E info_hash \in InfoHashes, conn \in BOOLEAN :
        /\ Step("remove_info_hash_from_whitelist", info_hash, conn,
                Db_remove_info_hash_from_whitelist(driver, db, info_hash, conn))
        /\ UNCHANGED saved

get_key_from_keys ==
    \E key \in KeyStrings, conn \in BOOLEAN :
        /\ Step("get_key_from_keys", key, conn,
                Db_get_key_from_keys(driver, db, key, conn))
        /\ UNCHANGED saved

add_key_to_keys ==
    \E auth_key \in AuthKeys, conn \in BOOLEAN,
       strict \in IF driver = "MySQL" THEN BOOLEAN ELSE {TRUE} :
        /\ Step("add_key_to_keys", auth_key, conn,
                Db_add_key_to_keys(driver, db, auth_key, conn, strict))
        /\ UNCHANGED saved

remove_key_from_keys ==
    \E key \in KeyStrings, conn \in BOOLEAN,
       parses \in IF driver = "MySQL" THEN BOOLEAN ELSE {TRUE} :
        /\ Step("remove_key_from_keys", key, conn,
                Db_remove_key_from_keys(driver, db, key, conn, parses))
        /\ UNCHANGED saved

Next ==
    \/ create_database_tables
    \/ create_database_tables_next
    \/ load_persistent_torrents
    \/ load_keys
    \/ load_whitelist
    \/ save_persistent_torrent
    \/ get_info_hash_from_whitelist
    \/ add_info_hash_to_whitelist
    \/ remove_info_hash_from_whitelist
    \/ get_key_from_keys
    \/ add_key_to_keys
    \/ remove_key_from_keys

Spec == Init /\ [][Next]_vars

----------------------------------------------------------------------------
(* The boot routine and the listener jobs.                                *)
(* caller[j]: idle, spawning (tokio::spawn called, start_job not yet      *)
(*            back in the boot routine), waiting (in rx.await), returned, *)
(*            panicked.                                                   *)
(* task[j]  : none, spawned, bound, ready, serving, failed, panicked.     *)
(* chan     : the oneshot channel of the API job: none, open, sent,       *)
(*            dropped (the sender went away without sending).             *)
(* ev[j]    : the events so far, among bound, ready, started, served.     *)
(* A spawned task does not look at the boot routine: it goes on when     *)
(* start_job of another job has panicked.                                 *)

BootPanicked == \E j \in Jobs : caller[j] = "panicked"
BootBusy == \E j \in Jobs : caller[j] \in {"waiting", "spawning"}
BootFree == ~BootPanicked /\ ~BootBusy

(* api::server::start: binds the listening socket (panics when it cannot) *)
(* and returns the future that serves it.                                 *)
server_start(ok) == IF ok THEN "bound" ELSE "panicked"

(* udp::server::Udp::new: binds the socket, or returns the io error.      *)
Udp_new(ok) == IF ok THEN "bound" ELSE "failed"

(* tracker_api::start_job up to rx.await *)
api_start_job ==
    /\ BootFree
    /\ caller[ApiJob] = "idle"
    /\ \E valid \in BOOLEAN :
          IF valid
          THEN /\ chan' = "open"
               /\ task' = [task EXCEPT ![ApiJob] = "spawned"]
               /\ caller' = [caller EXCEPT ![ApiJob] = "waiting"]
          ELSE /\ caller' = [caller EXCEPT ![ApiJob] = "panicked"]
               /\ UNCHANGED <<chan, task>>
    /\ UNCHANGED <<ev, dbVars>>

(* the spawned task: server::start(bind_addr, &tracker) *)
api_server_start ==
    /\ task[ApiJob] = "spawned"
    /\ \E ok \in BOOLEAN :
          /\ task' = [task EXCEPT ![ApiJob] = server_start(ok)]
          /\ chan' = IF ok THEN chan ELSE "dropped"
          /\ ev' = IF ok THEN [ev EXCEPT ![ApiJob] = @ \cup {"bound"}] ELSE ev
    /\ UNCHANGED <<caller, dbVars>>

(* the spawned task: tx.send(ApiServerJobStarted()) *)
api_send ==
    /\ task[ApiJob] = "bound"
    /\ chan = "open"
    /\ chan' = "sent"
    /\ task' = [task EXCEPT ![ApiJob] = "ready"]
    /\ ev' = [ev EXCEPT ![ApiJob] = @ \cup {"ready"}]
    /\ UNCHANGED <<caller, dbVars>>

(* the spawned task: handel.await, serving a request *)
api_serve ==
    /\ task[ApiJob] \in {"ready", "serving"}
    /\ task' = [task EXCEPT ![ApiJob] = "serving"]
    /\ ev' = [ev EXCEPT ![ApiJob] = @ \cup {"served"}]
    /\ UNCHANGED <<caller, chan, dbVars>>

(* start_job: rx.await yields Ok, the handle is returned *)
api_rx_ok ==
    /\ caller[ApiJob] = "waiting"
    /\ chan = "sent"
    /\ caller' = [caller EXCEPT ![ApiJob] = "returned"]
    /\ ev' = [ev EXCEPT ![ApiJob] = @ \cup {"started"}]
    /\ UNCHANGED <<task, chan, dbVars>>

(* start_job: rx.await yields Err, start_job panics *)
api_rx_err ==
    /\ caller[ApiJob] = "waiting"
    /\ chan = "dropped"
    /\ caller' = [caller EXCEPT ![ApiJob] = "panicked"]
    /\ UNCHANGED <<task, chan, ev, dbVars>>

(* udp_tracker::start_job: tokio::spawn hands the task to the runtime,    *)
(* whose worker threads may run it before start_job is back in the boot   *)
(* routine.                                                               *)
udp_start_job ==
    \E j \in UdpJobs :
        /\ BootFree
        /\ caller[j] = "idle"
        /\ task' = [task EXCEPT ![j] = "spawned"]
        /\ caller' = [caller EXCEPT ![j] = "spawning"]
        /\ UNCHANGED <<chan, ev, dbVars>>

(* udp_tracker::start_job: the JoinHandle is back in the boot routine *)
udp_start_job_return ==
    \E j \in UdpJobs :
        /\ caller[j] = "spawning"
        /\ caller' = [caller EXCEPT ![j] = "returned"]
        /\ ev' = [ev EXCEPT ![j] = @ \cup {"started"}]
        /\ UNCHANGED <<task, chan, dbVars>>

(* the spawned task: Udp::new(tracker, &bind_addr).await, Ok *)
udp_new_ok ==
    \E j \in UdpJobs :
        /\ task[j] = "spawned"
        /\ task' = [task EXCEPT ![j] = Udp_new(TRUE)]
        /\ ev' = [ev EXCEPT ![j] = @ \cup {"bound"}]
        /\ UNCHANGED <<caller, chan, dbVars>>

(* the spawned task: Udp::new fails; warn!, error!, and the task ends *)
udp_new_err ==
    \E j \in UdpJobs :
        /\ task[j] = "spawned"
        /\ task' = [task EXCEPT ![j] = Udp_new(FALSE)]
        /\ UNCHANGED <<caller, chan, ev, dbVars>>

(* the spawned task: udp_server.start().await, serving a request *)
udp_serve ==
    \E j \in UdpJobs :
        /\ task[j] \in {"bound", "serving"}
        /\ task' = [task EXCEPT ![j] = "serving"]
        /\ ev' = [ev EXCEPT ![j] = @ \cup {"served"}]
        /\ UNCHANGED <<caller, chan, dbVars>>

NextBoot ==
    \/ api_start_job
    \/ api_server_start
    \/ api_send
    \/ api_serve
    \/ api_rx_ok
    \/ api_rx_err
    \/ udp_start_job
    \/ udp_start_job_return
    \/ udp_new_ok
    \/ udp_new_err
    \/ udp_serve

DbIdle ==
    /\ driver = "Sqlite3"
    /\ db = Store(Tables, EmptyBag, EmptyBag, EmptyBag)
    /\ last = Returned("new", NoArg, TRUE, Ok(Unit), FALSE)
    /\ saved = [h \in InfoHashes |-> NotSaved]
    /\ creating = NotCreating

InitBoot == DbIdle /\ BootInit

SpecBoot == InitBoot /\ [][NextBoot]_vars

----------------------------------------------------------------------------
(* Properties. *)

RowsOf(rel, col, v) == Count(rel, Matching(rel, col, v))
Unique(rel, col) ==
    \A r \in BagToSet(rel) : RowsOf(rel, col, r[col]) = 1
Magnitude(v) == IF v >= 0 THEN v ELSE 0 - v
SameOut(a, b) ==
    /\ a.res = b.res
    /\ a.db = b.db

(* C1: after any calls of save_persistent_torrent, every info-hash that   *)
(* was saved has exactly one torrents row, holding the completed of its   *)
(* most recent save (overwritten, not added); a save that gets a          *)
(* connection to a store with a torrents relation returns Ok; and the     *)
(* same call again returns Ok and leaves the store as it is.              *)
C1_UpsertOverwrites ==
    /\ \A h \in InfoHashes :
          saved[h] # NotSaved =>
             /\ RowsOf(db.torrents, "info_hash", to_string(h)) = 1
             /\ \A r \in Matching(db.torrents, "info_hash", to_string(h)) :
                   r.completed = saved[h]
    /\ last.op = "save_persistent_torrent" /\ last.conn
          /\ HasTable(db, "torrents")
          => /\ IsOk(LastRes)
             /\ \A strict \in BOOLEAN :
                   LET again == Db_save_persistent_torrent(
                                   driver, db, LastArg.info_hash,
                                   LastArg.completed, TRUE, strict)
                   IN IsOk(again.res) /\ again.db = db

(* C2: on equal stores, every operation returns the same result and       *)
(* leaves the same store in the Sqlite adapter as in the Mysql adapter.   *)
C2_Interchangeable ==
    db.tables = Tables =>
    /\ SameOut(Sqlite_create_database_tables(db, TRUE),
               Mysql_create_database_tables(db, TRUE))
    /\ SameOut(Sqlite_load_persistent_torrents(db, TRUE),
               Mysql_load_persistent_torrents(db, TRUE))
    /\ SameOut(Sqlite_load_keys(db, TRUE), Mysql_load_keys(db, TRUE))
    /\ SameOut(Sqlite_load_whitelist(db, TRUE), Mysql_load_whitelist(db, TRUE))
    /\ \A h \in InfoHashes, c \in Completed, strict \in BOOLEAN :
          SameOut(Sqlite_save_persistent_torrent(db, h, c, TRUE),
                  Mysql_save_persistent_torrent(db, h, c, TRUE, strict))
    /\ \A x \in Texts :
          SameOut(Sqlite_get_info_hash_from_whitelist(db, x, TRUE),
                  Mysql_get_info_hash_from_whitelist(db, x, TRUE))
    /\ \A h \in InfoHashes :
          /\ SameOut(Sqlite_add_info_hash_to_whitelist(db, h, TRUE),
                     Mysql_add_info_hash_to_whitelist(db, h, TRUE))
          /\ SameOut(Sqlite_remove_info_hash_from_whitelist(db, h, TRUE),
                     Mysql_remove_info_hash_from_whitelist(db, h, TRUE))
    /\ \A k \in KeyStrings :
          /\ SameOut(Sqlite_get_key_from_keys(db, k, TRUE),
                     Mysql_get_key_from_keys(db, k, TRUE))
          /\ \A parses \in BOOLEAN :
                SameOut(Sqlite_remove_key_from_keys(db, k, TRUE),
                        Mysql_remove_key_from_keys(db, k, TRUE, parses))
    /\ \A a \in AuthKeys, strict \in BOOLEAN :
          SameOut(Sqlite_add_key_to_keys(db, a, TRUE),
                  Mysql_add_key_to_keys(db, a, TRUE, strict))

(* C3: a single-row read that finds no row returns NotFound               *)
(* (QueryReturnedNoRows): get_key for an absent key and                   *)
(* contains_whitelisted for an absent info-hash, in both adapters.        *)
C3_AbsentReadIsNotFound ==
    /\ last.op = "get_key_from_keys" /\ last.conn /\ HasTable(db, "keys")
          /\ Matching(db.keys, "key", LastArg) = {}
          => IsErr(LastRes, "QueryReturnedNoRows")
    /\ last.op = "get_info_hash_from_whitelist" /\ last.conn
          /\ HasTable(db, "whitelist")
          /\ Matching(db.whitelist, "info_hash", LastArg) = {}
          => IsErr(LastRes, "QueryReturnedNoRows")

(* C4: an operation that gets no connection from the pool returns         *)
(* DatabaseError and leaves the three relations as they were.             *)
C4_NoConnectionIsDatabaseError ==
    ~last.conn => IsErr(LastRes, "DatabaseError") /\ ~last.changed

(* C4 witness: load_keys without a connection, on a store with key rows.  *)
C4_Witness ==
    /\ last.op = "load_keys"
    /\ ~last.conn
    /\ db.keys # EmptyBag

(* C5: for every listener job: bound before ready, ready before           *)
(* start_job returns, start_job returned before the first request is      *)
(* served.                                                                *)
C5_ReadyBeforeStarted ==
    \A j \in Jobs :
        /\ "ready" \in ev[j] => "bound" \in ev[j]
        /\ "started" \in ev[j] => "ready" \in ev[j]
        /\ "served" \in ev[j] => "started" \in ev[j]

(* C6: no listener job ends before signalling ready, its socket not       *)
(* bound, while the boot routine has it as started.                       *)
C6_BootFailsLoudly ==
    \A j \in Jobs :
        task[j] \in {"failed", "panicked"} => caller[j] # "returned"

(* C7: no operation other than schema creation panics: each returns Ok    *)
(* or one of DatabaseError, InvalidQuery, QueryReturnedNoRows.            *)
C7_NoPanic ==
    last.op # "create_database_tables" =>
        \/ IsOk(LastRes)
        \/ /\ LastRes.tag = "Err"
           /\ LastRes.error \in {"DatabaseError", "InvalidQuery",
                                "QueryReturnedNoRows"}

(* The store after the three CREATE TABLE IF NOT EXISTS statements, run   *)
(* in the order p.                                                        *)
Orders ==
    {p \in [1 .. 3 -> Tables] : \A i, j \in 1 .. 3 : p[i] = p[j] => i = j}
CreatedInOrder(s, p) ==
    CreateTableIfNotExists(
        CreateTableIfNotExists(CreateTableIfNotExists(s, p[1]).s, p[2]).s,
        p[3]).s

(* C8: from any store, create_schema returns Ok and leaves the three      *)
(* relations existing with every existing row as it was; a further call   *)
(* returns Ok and changes nothing; and the store it leaves is the one     *)
(* any order of creating the three relations leaves, in both adapters.    *)
C8_CreateSchemaIdempotent ==
    /\ last.op = "create_database_tables" /\ last.conn
          => IsOk(LastRes) /\ db.tables = Tables
    /\ LET once == Db_create_database_tables(driver, db, TRUE)
           twice == Db_create_database_tables(driver, once.db, TRUE)
       IN /\ IsOk(once.res)
          /\ once.db = [db EXCEPT !.tables = Tables]
          /\ IsOk(twice.res)
          /\ twice.db = once.db
          /\ \A p \in Orders : CreatedInOrder(db, p) = once.db
          /\ Sqlite_create_database_tables(db, TRUE).db
                = Mysql_create_database_tables(db, TRUE).db

(* C8 witness: create_schema called on a fully created store that holds   *)
(* rows: Ok, nothing changed.                                             *)
C8_Witness ==
    /\ last.op = "create_database_tables"
    /\ IsOk(LastRes)
    /\ ~last.changed
    /\ db.torrents # EmptyBag
    /\ db.keys # EmptyBag
    /\ db.whitelist # EmptyBag

(* C9: the keys relation holds at most one row per key and the whitelist  *)
(* at most one row per info-hash; an add_key for a key already stored and *)
(* an add_whitelisted for an info-hash already stored return InvalidQuery *)
(* and change nothing.                                                    *)
C9_UniqueAndRejected ==
    /\ Unique(db.keys, "key")
    /\ Unique(db.whitelist, "info_hash")
    /\ last.op = "add_key_to_keys" /\ last.conn /\ ~last.changed
          /\ Matching(db.keys, "key", LastArg.key) # {}
          => IsErr(LastRes, "InvalidQuery")
    /\ last.op = "add_info_hash_to_whitelist" /\ last.conn /\ ~last.changed
          /\ Matching(db.whitelist, "info_hash", to_string(LastArg)) # {}
          => IsErr(LastRes, "InvalidQuery")
    /\ \A a \in AuthKeys, strict \in BOOLEAN :
          Matching(db.keys, "key", a.key) # {}
             => Db_add_key_to_keys(driver, db, a, TRUE, strict).db = db
    /\ \A h \in InfoHashes :
          Matching(db.whitelist, "info_hash", to_string(h)) # {}
             => Db_add_info_hash_to_whitelist(driver, db, h, TRUE).db = db

(* C10: get_key and load_keys return a stored valid_until v as            *)
(* Some(|v| seconds), a value of u64, and a stored row never makes them   *)
(* fail.                                                                  *)
C10_ReadsMagnitude ==
    /\ last.op = "get_key_from_keys" /\ last.conn
          /\ Matching(db.keys, "key", LastArg) # {}
          => /\ IsOk(LastRes)
             /\ \E r \in Matching(db.keys, "key", LastArg) :
                   /\ LastRes.val.key = r.key
                   /\ LastRes.val.valid_until.some
                   /\ LastRes.val.valid_until.secs = Magnitude(r.valid_until.n)
                   /\ LastRes.val.valid_until.secs \in 0 .. U64_MAX
    /\ last.op = "load_keys" /\ last.conn /\ HasTable(db, "keys")
          => /\ IsOk(LastRes)
             /\ BagCardinality(LastRes.val) = BagCardinality(db.keys)
             /\ BagToSet(LastRes.val) =
                   {[key |-> r.key,
                     valid_until |-> [some |-> TRUE,
                                      secs |-> Magnitude(r.valid_until.n)]] :
                       r \in BagToSet(db.keys)}
             /\ \A k \in BagToSet(LastRes.val) :
                   k.valid_until.secs \in 0 .. U64_MAX

(* C11: an AuthKey survives a round trip unchanged: right after an        *)
(* add_key(AuthKey{k, v}) that returned Ok, get_key(k) returns             *)
(* AuthKey{k, v} and load_keys returns a collection holding AuthKey{k, v}; *)
(* a never-expiring key (v = None) is not read back as Some(0).            *)
C11_KeyRoundTrip ==
    last.op = "add_key_to_keys" /\ IsOk(LastRes)
       => /\ Db_get_key_from_keys(driver, db, LastArg.key, TRUE).res
                = Ok(LastArg)
          /\ IsOk(Db_load_keys(driver, db, TRUE).res)
          /\ LastArg \in BagToSet(Db_load_keys(driver, db, TRUE).res.val)
          /\ \A k \in BagToSet(Db_load_keys(driver, db, TRUE).res.val) :
                k.key = LastArg.key => k = LastArg

====
